---------------------------- MODULE Spec2Model ----------------------------
(* Character-sample pipeline of train_classifier.py: the box filter, the   *)
(* box augmenter, the joint shuffle, the label encoder, the per-record     *)
(* __getitem__ of the two datasets and the balanced extraction utility.    *)
(*                                                                         *)
(* Coordinates are fixed-point: an integer counts units of 1/Scale pixel,  *)
(* so that the fractional noise of BB_augment and numpy's ceil, clip and   *)
(* integer truncation are computed, not assumed.  Python values that may   *)
(* be of several types (labels, a limit that may be None) are tagged       *)
(* tuples, so that a str never equals a non-str.                           *)
EXTENDS Integers, Sequences, FiniteSets, TLC

VARIABLES
    pc,            \* position of the running call
    opts,          \* the arguments / object fields of the running call
    img_wh,        \* <<W, H>> of the record's image, in pixels
    inBBs,         \* boxes as handed to the call
    inGts,         \* labels as handed to the call
    charBBs,       \* the call's working array of boxes
    chars,         \* the call's working list of labels (gts)
    skip_mask,     \* filter_BBs: its boolean mask
    rng,           \* state of the process-wide np.random stream
    shufLog,       \* every shuffle_in_unison call made: <<a, b, a', b'>>
    noiseLog,      \* BB_augment: per box, the noise drawn (<<>> when none)
    preBBs,        \* BB_augment: the boxes as they enter the perturbation loop
    imageOpen,     \* the PIL image handle is open
    loop_i,        \* __getitem__: index of the next box to crop
    batch,         \* __getitem__: the batch array, one pixel value per row
    onehot,        \* result of string_to_onehot
    encErr,        \* string_to_onehot raised (KeyError)
    distribution,  \* genBalancedCharDataset: class -> count
    todo,          \* genBalancedCharDataset: image indices still to visit
    cur,           \* genBalancedCharDataset: image being visited, 0 if none
    kpos,          \* genBalancedCharDataset: next character position
    files,         \* output files on disk (set of <<char, i, k>>)
    written        \* output files written by this run

vars == <<pc, opts, img_wh, inBBs, inGts, charBBs, chars, skip_mask, rng,
          shufLog, noiseLog, preBBs, imageOpen, loop_i, batch, onehot, encErr,
          distribution, todo, cur, kpos, files, written>>

-----------------------------------------------------------------------------
(* Bounds of the model.                                                    *)

\* longest box / label sequence of a record
MaxBoxes == 3
\* seeds of the random stream are 0..MaxSeed
MaxSeed == 1

\* units per pixel (a unit of measure: coefficients of 1/5 stay exact)
Scale == 2 * 5

Px(n) == n * Scale

-----------------------------------------------------------------------------
(* Python values.                                                          *)

None == <<"NoneType", "None">>
\* a str is the sequence of its characters; Str(c) is the one-character str
StrOf(cs) == <<"str", cs>>
Str(c) == StrOf(<<c>>)
IsStr(v) == v[1] = "str"

\* bool(v) for the label values of the model
Truthy(v) ==
    CASE v[1] = "str" -> v[2] # <<>>
      [] v[1] = "int" -> v[2] # "0"
      [] v[1] = "NoneType" -> FALSE
      [] OTHER -> TRUE

\* An optional integer argument: <<>> is None, <<n>> is the integer n.
NoLimit == <<>>
Limit(n) == <<n>>

Min(a, b) == IF a <= b THEN a ELSE b
Max(a, b) == IF a >= b THEN a ELSE b

\* x[:stop] of a Python sequence
SliceTo(x, stop) ==
    IF stop = NoLimit THEN x
    ELSE LET n == stop[1]
             e == IF n >= 0 THEN Min(n, Len(x)) ELSE Max(Len(x) + n, 0)
         IN  SubSeq(x, 1, e)

-----------------------------------------------------------------------------
(* image_proc: geometry helpers (imported module, modelled from the        *)
(* specification's section 4.1).                                           *)

Rect(x1, y1, x2, y2) == << <<x1, y1>>, <<x2, y1>>, <<x2, y2>>, <<x1, y2>> >>

MinOf(S) == CHOOSE m \in S : \A n \in S : m <= n
MaxOf(S) == CHOOSE m \in S : \A n \in S : m >= n

PointSum(BB, i) == BB[i][1] + BB[i][2]

\* index of the point of least x + y (the first of them)
TopLeftIdx(BB) ==
    CHOOSE i \in 1..4 :
        /\ \A j \in 1..4 : PointSum(BB, i) <= PointSum(BB, j)
        /\ \A j \in 1..(i-1) : PointSum(BB, j) > PointSum(BB, i)

\* index of the point of greatest x + y among the others (the first)
BottomRightIdx(BB, tl) ==
    CHOOSE i \in (1..4) \ {tl} :
        /\ \A j \in (1..4) \ {tl} : PointSum(BB, i) >= PointSum(BB, j)
        /\ \A j \in (1..4) \ {tl} : j < i => PointSum(BB, j) < PointSum(BB, i)

\* of the remaining two points r1, r2 the one with the smaller y is top-right
OrderRest(BB, tl, br, r1, r2) ==
    IF BB[r2][2] < BB[r1][2]
    THEN <<BB[tl], BB[r2], BB[br], BB[r1]>>
    ELSE <<BB[tl], BB[r1], BB[br], BB[r2]>>

OrderWith(BB, tl, br) ==
    OrderRest(BB, tl, br, MinOf((1..4) \ {tl, br}), MaxOf((1..4) \ {tl, br}))

\* (top-left, top-right, bottom-right, bottom-left)
order_points(BB) == OrderWith(BB, TopLeftIdx(BB), BottomRightIdx(BB, TopLeftIdx(BB)))

get_containing_rect(BB) ==
    Rect(MinOf({BB[i][1] : i \in 1..4}), MinOf({BB[i][2] : i \in 1..4}),
         MaxOf({BB[i][1] : i \in 1..4}), MaxOf({BB[i][2] : i \in 1..4}))

\* bottom-right minus top-left of four points in order
Extent(o) == <<o[3][1] - o[1][1], o[3][2] - o[1][2]>>

\* bottom-right minus top-left of the ordered quadrilateral
get_width_height(BB) == Extent(order_points(BB))

-----------------------------------------------------------------------------
(* filter_BBs                                                              *)

\* the two tests of the loop body on the containing rectangle r:
\* TRUE when the box is skipped
rect_skips_mut(r, img_w, img_h) ==
    \/ (r[3][1] > Px(img_w)) \/ (r[3][2] > Px(img_h))
    \/ (Extent(r)[1] <= Px(1)) \/ (Extent(r)[2] <= Px(1))

rect_skips(r, img_w, img_h) ==
    \/ (r[3][1] >= Px(img_w)) \/ (r[3][2] >= Px(img_h))
    \/ (Extent(r)[1] <= Px(1)) \/ (Extent(r)[2] <= Px(1))

filter_skips(BB, img_w, img_h) == rect_skips(get_containing_rect(BB), img_w, img_h)

\* the loop of filter_BBs from index i on: <<skip_mask, correct_gts>>;
\* this one appends the label of a degenerate box it masks out
RECURSIVE filter_loop_mut(_, _, _, _, _, _)
filter_loop_mut(BBs, gts, wh, i, mask, correct_gts) ==
    IF i > Len(BBs) THEN <<mask, correct_gts>>
    ELSE IF (get_containing_rect(BBs[i])[3][1] >= Px(wh[1]))
            \/ (get_containing_rect(BBs[i])[3][2] >= Px(wh[2]))
         THEN filter_loop_mut(BBs, gts, wh, i + 1,
                              [mask EXCEPT ![i] = FALSE], correct_gts)
         ELSE filter_loop_mut(BBs, gts, wh, i + 1,
                 [mask EXCEPT ![i] = ~filter_skips(BBs[i], wh[1], wh[2])],
                 Append(correct_gts, gts[i]))

RECURSIVE filter_loop(_, _, _, _, _, _)
filter_loop(BBs, gts, wh, i, mask, correct_gts) ==
    IF i > Len(BBs) THEN <<mask, correct_gts>>
    ELSE IF filter_skips(BBs[i], wh[1], wh[2])
         THEN filter_loop(BBs, gts, wh, i + 1,
                          [mask EXCEPT ![i] = FALSE], correct_gts)
         ELSE filter_loop(BBs, gts, wh, i + 1,
                          mask, Append(correct_gts, gts[i]))

\* BBs[skip_mask]: the rows whose mask entry is TRUE, in order
RECURSIVE MaskSelect(_, _, _)
MaskSelect(x, mask, i) ==
    IF i > Len(x) THEN <<>>
    ELSE IF mask[i] THEN <<x[i]>> \o MaskSelect(x, mask, i + 1)
         ELSE MaskSelect(x, mask, i + 1)

FilterResult(BBs, r) == <<r[1], MaskSelect(BBs, r[1], 1), r[2]>>

\* <<skip_mask, BBs[skip_mask], correct_gts>>
filter_BBs(BBs, gts, wh) ==
    FilterResult(BBs, filter_loop(BBs, gts, wh, 1,
                                  [i \in 1..Len(BBs) |-> TRUE], <<>>))

-----------------------------------------------------------------------------
(* The process-wide np.random stream: a deterministic generator whose      *)
(* state is a number; every draw advances it.                              *)

RngNext(s) == (5 * s + 3) % 97

\* random_interval(max): an integer of 0..max, from the advanced state s1
random_interval(s1, max) == (s1 * (max + 1)) \div 97

\* np.random.uniform(low, high): low + (high - low) * u, u in [0, 1)
uniform(s1, low, high) == low + ((high - low) * s1) \div 97

Swap(x, i, j) == [x EXCEPT ![i] = x[j], ![j] = x[i]]

\* np.random.shuffle(x) from position i down (1-based): <<x', state'>>
RECURSIVE shuffle_loop(_, _, _)
shuffle_loop(x, s, i) ==
    IF i < 2 THEN <<x, s>>
    ELSE shuffle_loop(Swap(x, i, 1 + random_interval(RngNext(s), i - 1)),
                      RngNext(s), i - 1)

np_random_shuffle(x, s) == shuffle_loop(x, s, Len(x))

UnisonResult(ra, rb) == [a |-> ra[1], b |-> rb[1], rng |-> rb[2]]

\* shuffles b from the state the shuffle of a left behind
shuffle_in_unison_mut(a, b, s) ==
    UnisonResult(np_random_shuffle(a, s),
                 np_random_shuffle(b, np_random_shuffle(a, s)[2]))

\* get_state, shuffle(a), set_state, shuffle(b)
shuffle_in_unison(a, b, s) ==
    UnisonResult(np_random_shuffle(a, s), np_random_shuffle(b, s))

\* the entry a call of shuffle_in_unison leaves in shufLog
ShufEntry(a, b, r) == <<a, b, r.a, r.b>>

-----------------------------------------------------------------------------
(* BB_augment                                                              *)

\* expand_coeff = contract_coeff = 0.2 = CoeffNum / CoeffDen
ExpandNum == 1
ContractNum == 1
CoeffDen == 5

\* np.ceil of a fixed-point value
Ceil(v) == (-((-v) \div Scale)) * Scale
\* a float stored into an integer array is truncated toward zero
Trunc(v) == IF v >= 0 THEN (v \div Scale) * Scale ELSE -(((-v) \div Scale) * Scale)
Clip(v, lo, hi) == IF v < lo THEN lo ELSE IF v > hi THEN hi ELSE v

\* the sign pattern of the corners: t: -y  l: -x  b: +y  r: +x
NoiseSign == << <<-1, -1>>, <<1, -1>>, <<1, 1>>, <<-1, 1>> >>

\* size draws of uniform(low, high): <<values, state'>>
RECURSIVE uniform_n(_, _, _, _)
UniformCons(v, rest) == << <<v>> \o rest[1], rest[2] >>
uniform_n(s, low, high, size) ==
    IF size = 0 THEN <<<<>>, s>>
    ELSE UniformCons(uniform(RngNext(s), low, high),
                     uniform_n(RngNext(s), low, high, size - 1))

\* noise = [noise_x, noise_y].T * sign pattern, and the state after
NoiseArray(nx, ny) ==
    [noise |-> [k \in 1..4 |-> <<nx[1][k] * NoiseSign[k][1],
                                 ny[1][k] * NoiseSign[k][2]>>],
     rng |-> ny[2]]

NoiseY(wh, nx) ==
    NoiseArray(nx, uniform_n(nx[2], -((ContractNum * wh[2]) \div CoeffDen),
                             (ExpandNum * wh[2]) \div CoeffDen, 4))

NoiseX(wh, s) ==
    NoiseY(wh, uniform_n(s, -((ContractNum * wh[1]) \div CoeffDen),
                         (ExpandNum * wh[1]) \div CoeffDen, 4))

\* the noise array of one box (lines 335-346) and the state after its
\* eight draws
draw_noise(BB, s) == NoiseX(get_width_height(BB), s)

\* lines 349-350: ceil(BB + noise), then clip(that + noise, 0, img_wh)
perturbed(BB, noise, wh) ==
    [k \in 1..4 |->
        <<Clip(Ceil(BB[k][1] + noise[k][1]) + noise[k][1], 0, Px(wh[1])),
          Clip(Ceil(BB[k][2] + noise[k][2]) + noise[k][2], 0, Px(wh[2]))>>]

\* the value an array of the given dtype holds after  charBBs[i] = new
stored(new, intArray) ==
    IF intArray THEN [k \in 1..4 |-> <<Trunc(new[k][1]), Trunc(new[k][2])>>]
    ELSE new

\* lines 352-355: the test reads BB, the box before the perturbation
PerturbWith(BB, wh, intArray, d) ==
    [BB |-> IF (get_width_height(BB)[1] > Px(1)) /\ (get_width_height(BB)[2] > Px(1))
            THEN stored(perturbed(BB, d.noise, wh), intArray)
            ELSE BB,
     rng |-> d.rng, noise |-> d.noise]

\* one pass of the loop body (lines 334-355) on box BB with label gt:
\* the box the array holds afterwards, the stream's state, the noise drawn
perturb_box(BB, gt, wh, intArray, s) ==
    IF Truthy(gt)
    THEN PerturbWith(BB, wh, intArray, draw_noise(BB, s))
    ELSE [BB |-> BB, rng |-> s, noise |-> <<>>]

\* the perturbation loop from box i on
RECURSIVE perturb_loop(_, _, _, _, _, _, _)
RECURSIVE PerturbNext(_, _, _, _, _, _, _)
PerturbNext(BBs, gts, wh, intArray, i, log, r) ==
    perturb_loop([BBs EXCEPT ![i] = r.BB], gts, wh, intArray, r.rng, i + 1,
                 Append(log, r.noise))

perturb_loop(BBs, gts, wh, intArray, s, i, log) ==
    IF i > Len(BBs) THEN [BBs |-> BBs, rng |-> s, noise |-> log]
    ELSE PerturbNext(BBs, gts, wh, intArray, i, log,
                     perturb_box(BBs[i], gts[i], wh, intArray, s))

\* genNonCharBBs: unimplemented, returns None
genNonCharBBs(wordBBs, wh, N_nonchars) == None

\* lines 298-304: N, and batch_size_limit (reset to None when <= 0)
BatchN(gts, L0) ==
    IF L0 = NoLimit THEN Len(gts)
    ELSE IF L0[1] <= 0 THEN Len(gts)
    ELSE Min(Len(gts), L0[1])

EffectiveLimit(L0) == IF L0 # NoLimit /\ L0[1] <= 0 THEN NoLimit ELSE L0

Selected(r, shuf) == [BBs |-> r.a, gts |-> r.b, rng |-> r.rng, shuf |-> shuf]

\* lines 314-322 after the first shuffle r1: truncate to N - N_nonchars,
\* add nothing (noncharBBs is None), shuffle again
NoncharsSecond(BBs, gts, r1, b1, g1) ==
    Selected(shuffle_in_unison(b1, g1, r1.rng),
             <<ShufEntry(BBs, gts, r1),
               ShufEntry(b1, g1, shuffle_in_unison(b1, g1, r1.rng))>>)

NoncharsSelect(BBs, gts, keep, noncharBBs, r1) ==
    NoncharsSecond(BBs, gts, r1, SliceTo(r1.a, Limit(keep)),
                   SliceTo(r1.b, Limit(keep)))

\* lines 306-325: the arrays after the shuffles of the branch taken
AugmentSelect(BBs, gts, wh, o, s, N) ==
    IF o.nonchars
    THEN NoncharsSelect(BBs, gts,
            N - ((o.fraction_nonchar[1] * N) \div o.fraction_nonchar[2]),
            genNonCharBBs(<<>>, wh, (o.fraction_nonchar[1] * N) \div o.fraction_nonchar[2]),
            shuffle_in_unison(BBs, gts, s))
    ELSE IF o.shuffle
    THEN Selected(shuffle_in_unison(BBs, gts, s),
                  <<ShufEntry(BBs, gts, shuffle_in_unison(BBs, gts, s))>>)
    ELSE [BBs |-> BBs, gts |-> gts, rng |-> s, shuf |-> <<>>]

AugmentPack(sel, cut, gcut, p) ==
    [raised |-> FALSE, BBs |-> p.BBs, gts |-> gcut, rng |-> p.rng,
     shuf |-> sel.shuf, noise |-> p.noise, pre |-> cut]

\* lines 332-357 on the truncated arrays
AugmentPerturb(sel, cut, gcut, wh, intArray) ==
    AugmentPack(sel, cut, gcut,
                perturb_loop(cut, gcut, wh, intArray, sel.rng, 1, <<>>))

\* lines 327-330: [:batch_size_limit] of both arrays
AugmentCut(sel, L, wh, intArray) ==
    AugmentPerturb(sel, SliceTo(sel.BBs, L), SliceTo(sel.gts, L), wh, intArray)

\* o: [nonchars, shuffle, batch_size_limit, fraction_nonchar = <<num, den>>,
\*     intArray].  Result: the returned arrays, the stream's state, the
\*     shuffles made, the noise drawn, the boxes before the perturbation
\*     loop, and whether the assert raised.
BB_augment(BBs, gts, wh, o, s) ==
    IF o.nonchars /\ ~(o.fraction_nonchar[1] < o.fraction_nonchar[2])
    THEN [raised |-> TRUE, BBs |-> BBs, gts |-> gts, rng |-> s,
          shuf |-> <<>>, noise |-> <<>>, pre |-> <<>>]
    ELSE AugmentCut(AugmentSelect(BBs, gts, wh, o, s,
                                  BatchN(gts, o.batch_size_limit)),
                    EffectiveLimit(o.batch_size_limit), wh, o.intArray)

-----------------------------------------------------------------------------
(* string_to_onehot                                                        *)

AlphabetString ==
    << "A","a","B","b","C","D","d","E","e","F","f","G","g","H","h","I","i",
       "J","j","K","L","l","M","m","N","n","O","P","Q","q","R","r","S","T",
       "t","U","V","W","X","Y","Z" >>

\* ALPHABET = list("AaBb...Z") + [None,]
ALPHABET ==
    <<"list", [i \in 1..Len(AlphabetString) |-> Str(AlphabetString[i])] \o <<None>> >>

\* the alphabet the function falls back to when none is passed (a str)
DefaultAlphabet == StrOf(AlphabetString)

UpperCase == << "A","B","C","D","E","F","G","H","I","J","K","L","M","N","O",
                "P","Q","R","S","T","U","V","W","X","Y","Z" >>
LowerCase == << "a","b","c","d","e","f","g","h","i","j","k","l","m","n","o",
                "p","q","r","s","t","u","v","w","x","y","z" >>

SwapChar(c) ==
    IF \E i \in 1..26 : UpperCase[i] = c
    THEN LowerCase[CHOOSE i \in 1..26 : UpperCase[i] = c]
    ELSE IF \E i \in 1..26 : LowerCase[i] = c
         THEN UpperCase[CHOOSE i \in 1..26 : LowerCase[i] = c]
         ELSE c

\* str.swapcase
swapcase(c) == StrOf([k \in 1..Len(c[2]) |-> SwapChar(c[2][k])])

\* sub in s, for two str: s holds sub as a run of consecutive characters
IsSubstring(sub, s) ==
    \E start \in 0..(Len(s) - Len(sub)) :
        \A k \in 1..Len(sub) : s[start + k] = sub[k]

\* the elements iterating over the alphabet yields: the items of a list,
\* the one-character strs of a str
Items(alphabet) ==
    IF alphabet[1] = "str"
    THEN [i \in 1..Len(alphabet[2]) |-> Str(alphabet[2][i])]
    ELSE alphabet[2]

\* char in alphabet, for a str char: an element equal to it in a list,
\* a substring in a str
InAlphabet(char, alphabet) ==
    IF alphabet[1] = "str"
    THEN IsSubstring(char[2], alphabet[2])
    ELSE \E i \in 1..Len(alphabet[2]) : alphabet[2][i] = char

EnumerateItems(items) ==
    [c \in {items[i] : i \in 1..Len(items)} |->
        MaxOf({i \in 1..Len(items) : items[i] = c}) - 1]

\* dict((c, i) for i, c in enumerate(alphabet)): a later position wins
EnumerateDict(alphabet) == EnumerateItems(Items(alphabet))

\* the dict, plus char_to_int[None] = len(char_to_int) when asked and absent
WithNonchar(d, include_nonchar) ==
    IF include_nonchar /\ None \notin DOMAIN d
    THEN [c \in DOMAIN d \cup {None} |->
             IF c \in DOMAIN d THEN d[c] ELSE Cardinality(DOMAIN d)]
    ELSE d

char_to_int_of(alphabet, include_nonchar) ==
    WithNonchar(EnumerateDict(alphabet), include_nonchar)

SwapIfAbsent(char, alphabet) ==
    IF ~InAlphabet(char, alphabet) THEN swapcase(char) ELSE char

NoneIfAbsent(char, alphabet) ==
    IF ~InAlphabet(char, alphabet) THEN None ELSE char

\* the key looked up for one label (lines 386-392)
encode_key(char, alphabet) ==
    IF ~IsStr(char) THEN None
    ELSE NoneIfAbsent(SwapIfAbsent(char, alphabet), alphabet)

\* a row with a single 1 at column j (0-based)
OneHotRow(j, width) == [c \in 1..width |-> IF c = j + 1 THEN 1 ELSE 0]

\* lines 397-405
EncodePack(encoded_data, width, to_onehot) ==
    [raised |-> FALSE,
     data |-> IF to_onehot
              THEN [i \in 1..Len(encoded_data) |-> OneHotRow(encoded_data[i], width)]
              ELSE encoded_data]

\* lines 384-394: char_to_int[char] raises KeyError for a missing key
EncodeWith(string, alphabet, char_to_int, to_onehot) ==
    IF \E i \in 1..Len(string) :
          encode_key(string[i], alphabet) \notin DOMAIN char_to_int
    THEN [raised |-> TRUE, data |-> <<>>]
    ELSE EncodePack([i \in 1..Len(string) |->
                        char_to_int[encode_key(string[i], alphabet)]],
                    Cardinality(DOMAIN char_to_int), to_onehot)

\* lines 376-377: no alphabet, or an empty one, is replaced by the default
AlphabetOf(alphabetArg) ==
    IF alphabetArg = <<>> THEN DefaultAlphabet
    ELSE IF alphabetArg[1][2] = <<>> THEN DefaultAlphabet
    ELSE alphabetArg[1]

\* alphabetArg: <<>> when no alphabet is passed, else <<alphabet>>.
\* Result: [raised, data]; data is the index list or the one-hot rows.
string_to_onehot(string, alphabetArg, include_nonchar, to_onehot) ==
    EncodeWith(string, AlphabetOf(alphabetArg),
               char_to_int_of(AlphabetOf(alphabetArg), include_nonchar),
               to_onehot)

-----------------------------------------------------------------------------
(* Inputs.                                                                 *)

\* image sizes (W, H), in pixels
ImgSizes == { <<12, 12>>, <<16, 12>> }

\* (box, label) pairs a record is made of; coordinates in units
PairPool ==
    { <<Rect(Px(1), Px(1), Px(3), Px(3)), Str("A")>>,        \* 2 x 2
      <<Rect(Px(1), Px(1), Px(11), Px(11)), Str("c")>>,      \* 10 x 10
      <<Rect(Px(8), Px(8), Px(13), Px(10)), Str("B")>>,      \* past W = 12
      <<Rect(Px(6), Px(6), Px(12), Px(9)), Str("D")>>,       \* ends on W = 12
      <<Rect(Px(4), Px(4), Px(5), Px(8)), Str("e")>>,        \* 1 wide
      << << <<40, 10>>, <<70, 20>>, <<60, 50>>, <<30, 40>> >>, Str("7")>>,
      <<Rect(15, 45, 30, 70), <<"int", "0">> >> }            \* 1.5 x 2.5

Records == UNION { [1..k -> PairPool] : k \in 0..MaxBoxes }

BoxesOf(rec) == [i \in 1..Len(rec) |-> rec[i][1]]
LabelsOf(rec) == [i \in 1..Len(rec) |-> rec[i][2]]

Seeds == 0..MaxSeed

\* the values of the variables a specification does not use
IdleFilter == /\ skip_mask = <<>>
IdleRandom == /\ rng = 0 /\ shufLog = <<>> /\ noiseLog = <<>> /\ preBBs = <<>>
IdleImage == /\ imageOpen = FALSE /\ loop_i = 0 /\ batch = <<>>
IdleEncode == /\ onehot = <<>> /\ encErr = FALSE
IdleBalanced == /\ distribution = <<>> /\ todo = <<>> /\ cur = 0 /\ kpos = 0
                /\ files = {} /\ written = {}

balancedVars == <<distribution, todo, cur, kpos, files, written>>

-----------------------------------------------------------------------------
(* SpecFilter: calls of filter_BBs.                                        *)

InitFilter ==
    /\ pc = "call"
    /\ opts = <<>>
    /\ img_wh \in ImgSizes
    /\ \E rec \in Records : inBBs = BoxesOf(rec) /\ inGts = LabelsOf(rec)
    /\ charBBs = <<>> /\ chars = <<>>
    /\ IdleFilter /\ IdleRandom /\ IdleImage /\ IdleEncode /\ IdleBalanced

FilterCall ==
    /\ pc = "call"
    /\ LET r == filter_BBs(inBBs, inGts, img_wh)
       IN  /\ skip_mask' = r[1]
           /\ charBBs' = r[2]
           /\ chars' = r[3]
    /\ pc' = "returned"
    /\ UNCHANGED <<opts, img_wh, inBBs, inGts, rng, shufLog, noiseLog, preBBs,
                   imageOpen, loop_i, batch, onehot, encErr, balancedVars>>

NextFilter == FilterCall

SpecFilter == InitFilter /\ [][NextFilter]_vars

\* extent of a box's containing rectangle, from its coordinates
BoxRight(BB) == MaxOf({BB[k][1] : k \in 1..4})
BoxBottom(BB) == MaxOf({BB[k][2] : k \in 1..4})
BoxWidth(BB) == BoxRight(BB) - MinOf({BB[k][1] : k \in 1..4})
BoxHeight(BB) == BoxBottom(BB) - MinOf({BB[k][2] : k \in 1..4})

Degenerate(BB) == BoxWidth(BB) <= Px(1) \/ BoxHeight(BB) <= Px(1)

\* the subsequence of x at the indices satisfying keep, in order
RECURSIVE KeptSeq(_, _, _)
KeptSeq(x, keep(_), i) ==
    IF i > Len(x) THEN <<>>
    ELSE (IF keep(i) THEN <<x[i]>> ELSE <<>>) \o KeptSeq(x, keep, i + 1)

\* C6 as stated: a pair is discarded exactly when the bottom-right corner of
\* the containing rectangle EXCEEDS the image width or height, or the
\* rectangle is at most 1 wide or 1 high; a box ending exactly on the image
\* width or height is kept.
C6_DiscardIffExceeds ==
    pc = "returned" =>
        \A i \in 1..Len(inBBs) :
            (~skip_mask[i]) <=>
                \/ BoxRight(inBBs[i]) > Px(img_wh[1])
                \/ BoxBottom(inBBs[i]) > Px(img_wh[2])
                \/ Degenerate(inBBs[i])

\* C6 amended: a pair is discarded exactly when the bottom-right corner of
\* the containing rectangle reaches or exceeds the image width or height
\* (br.x >= W or br.y >= H), or the rectangle is at most 1 wide or 1 high;
\* the boxes and labels returned are exactly the other pairs.
C6_DiscardIffReaches ==
    pc = "returned" =>
        LET keep(i) == ~ \/ BoxRight(inBBs[i]) >= Px(img_wh[1])
                         \/ BoxBottom(inBBs[i]) >= Px(img_wh[2])
                         \/ Degenerate(inBBs[i])
        IN  /\ \A i \in 1..Len(inBBs) : skip_mask[i] <=> keep(i)
            /\ charBBs = KeptSeq(inBBs, keep, 1)
            /\ chars = KeptSeq(inGts, keep, 1)

\* a box ending exactly on the image width was filtered out, another kept
C6_Witness ==
    /\ pc = "returned"
    /\ \E i, j \in 1..Len(inBBs) :
          /\ BoxRight(inBBs[i]) = Px(img_wh[1])
          /\ BoxBottom(inBBs[i]) < Px(img_wh[2])
          /\ ~Degenerate(inBBs[i])
          /\ ~skip_mask[i]
          /\ skip_mask[j]

\* C10: filter_BBs preserves order and pairing: boxes and labels returned
\* have equal length, and the k-th box and the k-th label returned are those
\* of one input index, the kept indices being strictly increasing.
C10_OrderAndPairing ==
    pc = "returned" =>
        /\ Len(charBBs) = Len(chars)
        /\ \E idx \in [1..Len(charBBs) -> 1..Len(inBBs)] :
              /\ \A k \in 1..(Len(charBBs) - 1) : idx[k] < idx[k + 1]
              /\ {idx[k] : k \in 1..Len(charBBs)} =
                    {i \in 1..Len(inBBs) : skip_mask[i]}
              /\ \A k \in 1..Len(charBBs) :
                    /\ charBBs[k] = inBBs[idx[k]]
                    /\ chars[k] = inGts[idx[k]]

\* a pair in the middle was dropped, the pairs around it are kept in order
C10_Witness ==
    /\ pc = "returned"
    /\ Len(inBBs) = 3 /\ Len(chars) = 2
    /\ skip_mask[1] /\ ~skip_mask[2] /\ skip_mask[3]
    /\ chars[1] # chars[2]
    /\ charBBs[1] # charBBs[2]

-----------------------------------------------------------------------------
(* SpecAugment: the selection stage on filtered boxes, either BB_augment   *)
(* or the plain branch of __getitem__ (shuffle, then truncate).            *)

PlainCut(sel, L) ==
    [BBs |-> SliceTo(sel.BBs, L), gts |-> SliceTo(sel.gts, L),
     rng |-> sel.rng, shuf |-> sel.shuf]

\* lines 88-92: shuffle_in_unison when self.shuffle, then [:batch_size_limit]
plain_select(BBs, gts, o, s) ==
    PlainCut(IF o.shuffle
             THEN Selected(shuffle_in_unison(BBs, gts, s),
                           <<ShufEntry(BBs, gts, shuffle_in_unison(BBs, gts, s))>>)
             ELSE [BBs |-> BBs, gts |-> gts, rng |-> s, shuf |-> <<>>],
             o.batch_size_limit)

\* batch_size_limit as BB_augment is called
AugLimits == {NoLimit, Limit(0), Limit(2)}

\* the image and the (box, label) pairs of the records it is called on
AugImgSizes == { <<16, 12>> }
AugPairPool ==
    { <<Rect(Px(1), Px(1), Px(3), Px(3)), Str("A")>>,
      <<Rect(Px(1), Px(1), Px(11), Px(11)), Str("c")>>,
      <<Rect(Px(4), Px(4), Px(5), Px(8)), Str("e")>>,
      << << <<40, 10>>, <<70, 20>>, <<60, 50>>, <<30, 40>> >>, Str("7")>>,
      <<Rect(15, 45, 30, 70), <<"int", "0">> >> }
AugRecords == UNION { [1..k -> AugPairPool] : k \in 0..MaxBoxes }

\* nonchars, shuffle and fraction_nonchar as BB_augment may be called
AugmentArgs ==
    {[nonchars |-> FALSE, shuffle |-> sh, fraction_nonchar |-> <<1, 10>>] :
        sh \in BOOLEAN}
    \cup {[nonchars |-> TRUE, shuffle |-> TRUE, fraction_nonchar |-> fr] :
        fr \in {<<1, 10>>, <<1, 2>>, <<1, 1>>}}

AugOpts ==
    {[augment |-> TRUE, nonchars |-> a.nonchars, shuffle |-> a.shuffle,
      fraction_nonchar |-> a.fraction_nonchar, batch_size_limit |-> l,
      intArray |-> ia] : a \in AugmentArgs, l \in AugLimits, ia \in BOOLEAN}
    \cup
    {[augment |-> FALSE, nonchars |-> FALSE, shuffle |-> sh,
      fraction_nonchar |-> <<1, 10>>, batch_size_limit |-> l,
      intArray |-> ia] : sh \in BOOLEAN, l \in AugLimits, ia \in BOOLEAN}

\* an integer array holds whole pixels only
WholePixels(BBs) ==
    \A i \in 1..Len(BBs) : \A k \in 1..4 :
        BBs[i][k][1] % Scale = 0 /\ BBs[i][k][2] % Scale = 0

InitAugment ==
    /\ pc = "call"
    /\ opts \in AugOpts
    /\ img_wh \in AugImgSizes
    /\ \E rec \in AugRecords :
          /\ inBBs = filter_BBs(BoxesOf(rec), LabelsOf(rec), img_wh)[2]
          /\ inGts = filter_BBs(BoxesOf(rec), LabelsOf(rec), img_wh)[3]
    /\ opts.intArray => WholePixels(inBBs)
    /\ charBBs = inBBs /\ chars = inGts
    /\ rng \in Seeds
    /\ shufLog = <<>> /\ noiseLog = <<>> /\ preBBs = <<>>
    /\ IdleFilter /\ IdleImage /\ IdleEncode /\ IdleBalanced

AugmentCall ==
    /\ pc = "call"
    /\ opts.augment
    /\ LET r == BB_augment(charBBs, chars, img_wh, opts, rng)
       IN  /\ pc' = IF r.raised THEN "raised" ELSE "returned"
           /\ charBBs' = r.BBs
           /\ chars' = r.gts
           /\ rng' = r.rng
           /\ shufLog' = shufLog \o r.shuf
           /\ noiseLog' = r.noise
           /\ preBBs' = r.pre
    /\ UNCHANGED <<opts, img_wh, inBBs, inGts, skip_mask, imageOpen, loop_i,
                   batch, onehot, encErr, balancedVars>>

PlainSelect ==
    /\ pc = "call"
    /\ ~opts.augment
    /\ LET r == plain_select(charBBs, chars, opts, rng)
       IN  /\ charBBs' = r.BBs
           /\ chars' = r.gts
           /\ rng' = r.rng
           /\ shufLog' = shufLog \o r.shuf
    /\ pc' = "returned"
    /\ UNCHANGED <<opts, img_wh, inBBs, inGts, skip_mask, noiseLog, preBBs,
                   imageOpen, loop_i, batch, onehot, encErr, balancedVars>>

NextAugment == AugmentCall \/ PlainSelect

SpecAugment == InitAugment /\ [][NextAugment]_vars

\* outward displacement of corner k of box i along axis a (1: x, 2: y)
Outward(i, k, a) == (charBBs[i][k][a] - preBBs[i][k][a]) * NoiseSign[k][a]

\* C1: no corner of a character box is displaced by more than one drawn
\* noise value: outward by at most expand_coeff x the box's dimension,
\* inward by at most contract_coeff x the dimension, up to the rounding of
\* less than one pixel (clamping only moves a corner back toward the box).
C1_PerturbationWithinCoeff ==
    (pc = "returned" /\ opts.augment) =>
        \A i \in 1..Len(charBBs) : Truthy(chars[i]) =>
            LET wh == get_width_height(preBBs[i])
            IN  \A k \in 1..4 : \A a \in 1..2 :
                  /\ Outward(i, k, a) * CoeffDen
                        <= ExpandNum * wh[a] + Px(1) * CoeffDen
                  /\ (-Outward(i, k, a)) * CoeffDen
                        <= ContractNum * wh[a] + Px(1) * CoeffDen

\* C2: a perturbed box replaces the original only if its own width and
\* height both exceed 1, so every box BB_augment returns for filtered input
\* is more than 1 wide and more than 1 high.
C2_ReturnedBoxesExceedOne ==
    (pc = "returned" /\ opts.augment) =>
        \A i \in 1..Len(charBBs) :
            LET wh == get_width_height(charBBs[i])
            IN  wh[1] > Px(1) /\ wh[2] > Px(1)

PairCount(a, b, p) == Cardinality({i \in 1..Len(a) : <<a[i], b[i]>> = p})

\* C8: every call of shuffle_in_unison (two in BB_augment's nonchars branch,
\* one in its shuffle branch, one in the plain branch of __getitem__) leaves
\* exactly the (box, label) pairs it was given: same lengths, and every pair
\* occurs at equal indices as many times after the call as before.
C8_ShufflePreservesPairs ==
    \A n \in 1..Len(shufLog) :
        LET a == shufLog[n][1]  b == shufLog[n][2]
            a2 == shufLog[n][3] b2 == shufLog[n][4]
        IN  /\ Len(a2) = Len(a) /\ Len(b2) = Len(b) /\ Len(a) = Len(b)
            /\ \A i \in 1..Len(a) :
                  PairCount(a2, b2, <<a[i], b[i]>>) = PairCount(a, b, <<a[i], b[i]>>)

\* a shuffle moved three different pairs, and BB_augment shuffled twice
C8_Witness ==
    /\ pc = "returned"
    /\ Len(shufLog) = 2
    /\ Len(shufLog[1][1]) = 3
    /\ shufLog[1][3] # shufLog[1][1]
    /\ shufLog[1][2][1] # shufLog[1][2][2]
    /\ shufLog[1][2][2] # shufLog[1][2][3]
    /\ shufLog[1][2][1] # shufLog[1][2][3]
    /\ shufLog[2][3] # shufLog[2][1]

-----------------------------------------------------------------------------
(* Spec: __getitem__ of SynthCharDataset and of ICDAR2013CharDataset, one  *)
(* call on one record.                                                     *)

\* the divisor of line 111; batch values are kept in units of
\* 1 / (2 * PixelMax), so that the 0.5 of line 112 is PixelMax units
PixelMax == 255
Half == PixelMax
One == 2 * PixelMax

\* cropBB(fast=True): the size (w, h) of the crop, np.ceil(max - min)
cropBB_size(BB) ==
    <<Ceil(MaxOf({BB[k][1] : k \in 1..4}) - MinOf({BB[k][1] : k \in 1..4})),
      Ceil(MaxOf({BB[k][2] : k \in 1..4}) - MinOf({BB[k][2] : k \in 1..4}))>>

\* the crop or its resize raises: the image data, loaded at the first
\* crop, cannot be decoded, or the crop is empty
CropFails(BB, o) ==
    \/ ~o.decodable
    \/ cropBB_size(BB)[1] = 0
    \/ cropBB_size(BB)[2] = 0

\* lines 110-113 (SynthCharDataset only): batch /= 255; -= 0.5; *= 2
Rescaled(b) == [i \in 1..Len(b) |-> ((b[i] \div PixelMax) - Half) * 2]

GetItemLimits == {NoLimit, Limit(-1), Limit(0), Limit(2)}

GetItemPairPool ==
    { <<Rect(Px(1), Px(1), Px(3), Px(3)), Str("A")>>,
      <<Rect(Px(1), Px(1), Px(11), Px(11)), Str("c")>>,
      <<Rect(Px(6), Px(6), Px(12), Px(9)), Str("D")>>,
      <<Rect(Px(4), Px(4), Px(5), Px(8)), Str("7")>> }
GetItemRecords == UNION { [1..k -> GetItemPairPool] : k \in 0..MaxBoxes }

\* the dataset object's fields, and the record's image file
GetItemOpts ==
    [variant : {"synth", "icdar"}, augment : BOOLEAN, shuffle : BOOLEAN,
     batch_size_limit : GetItemLimits, decodable : BOOLEAN,
     pixel : {0, PixelMax}]

\* the arguments __getitem__ passes to BB_augment (lines 84-86, 218-220)
AugmentArgsOf(o) ==
    [nonchars |-> FALSE, shuffle |-> o.shuffle,
     fraction_nonchar |-> <<1, 10>>, batch_size_limit |-> o.batch_size_limit,
     intArray |-> (o.variant = "icdar")]

Init ==
    /\ pc = "start"
    /\ opts \in GetItemOpts
    /\ img_wh = <<12, 12>>
    /\ \E rec \in GetItemRecords : inBBs = BoxesOf(rec) /\ inGts = LabelsOf(rec)
    /\ charBBs = <<>> /\ chars = <<>> /\ skip_mask = <<>>
    /\ rng \in Seeds
    /\ shufLog = <<>> /\ noiseLog = <<>> /\ preBBs = <<>>
    /\ IdleImage /\ IdleEncode /\ IdleBalanced

\* lines 58-79 and 210-214: open the image, read the record, filter
GetItemOpen ==
    /\ pc = "start"
    /\ imageOpen' = TRUE
    /\ skip_mask' = filter_BBs(inBBs, inGts, img_wh)[1]
    /\ charBBs' = filter_BBs(inBBs, inGts, img_wh)[2]
    /\ chars' = filter_BBs(inBBs, inGts, img_wh)[3]
    /\ pc' = "filtered"
    /\ UNCHANGED <<opts, img_wh, inBBs, inGts, rng, shufLog, noiseLog, preBBs,
                   loop_i, batch, onehot, encErr, balancedVars>>

\* lines 82-98 with self.augment: BB_augment, then batch = np.zeros((N, ...))
GetItemAugment ==
    /\ pc = "filtered"
    /\ opts.augment
    /\ charBBs' = BB_augment(charBBs, chars, img_wh, AugmentArgsOf(opts), rng).BBs
    /\ chars' = BB_augment(charBBs, chars, img_wh, AugmentArgsOf(opts), rng).gts
    /\ rng' = BB_augment(charBBs, chars, img_wh, AugmentArgsOf(opts), rng).rng
    /\ shufLog' = BB_augment(charBBs, chars, img_wh, AugmentArgsOf(opts), rng).shuf
    /\ noiseLog' = BB_augment(charBBs, chars, img_wh, AugmentArgsOf(opts), rng).noise
    /\ preBBs' = BB_augment(charBBs, chars, img_wh, AugmentArgsOf(opts), rng).pre
    /\ batch' = [i \in 1..Len(chars') |-> 0]
    /\ loop_i' = 1
    /\ pc' = "cropping"
    /\ UNCHANGED <<opts, img_wh, inBBs, inGts, skip_mask, imageOpen, onehot,
                   encErr, balancedVars>>

\* lines 87-98 without self.augment: shuffle, truncate, batch = np.zeros
GetItemPlain ==
    /\ pc = "filtered"
    /\ ~opts.augment
    /\ charBBs' = plain_select(charBBs, chars, opts, rng).BBs
    /\ chars' = plain_select(charBBs, chars, opts, rng).gts
    /\ rng' = plain_select(charBBs, chars, opts, rng).rng
    /\ shufLog' = plain_select(charBBs, chars, opts, rng).shuf
    /\ batch' = [i \in 1..Len(chars') |-> 0]
    /\ loop_i' = 1
    /\ pc' = "cropping"
    /\ UNCHANGED <<opts, img_wh, inBBs, inGts, skip_mask, noiseLog, preBBs,
                   imageOpen, onehot, encErr, balancedVars>>

\* lines 99-107: one pass of the loop, the crop and the resize succeed
GetItemCrop ==
    /\ pc = "cropping"
    /\ loop_i <= Len(charBBs)
    /\ ~CropFails(charBBs[loop_i], opts)
    /\ batch' = [batch EXCEPT ![loop_i] = opts.pixel * One]
    /\ loop_i' = loop_i + 1
    /\ UNCHANGED <<pc, opts, img_wh, inBBs, inGts, charBBs, chars, skip_mask,
                   rng, shufLog, noiseLog, preBBs, imageOpen, onehot, encErr,
                   balancedVars>>

\* lines 99-107: the crop or the resize raises; the exception leaves
\* __getitem__, nothing catches it
GetItemCropRaises ==
    /\ pc = "cropping"
    /\ loop_i <= Len(charBBs)
    /\ CropFails(charBBs[loop_i], opts)
    /\ pc' = "raised"
    /\ UNCHANGED <<opts, img_wh, inBBs, inGts, charBBs, chars, skip_mask, rng,
                   shufLog, noiseLog, preBBs, imageOpen, loop_i, batch,
                   onehot, encErr, balancedVars>>

\* lines 108 and 242: image.close() after the loop
GetItemClose ==
    /\ pc = "cropping"
    /\ loop_i > Len(charBBs)
    /\ imageOpen' = FALSE
    /\ pc' = "closed"
    /\ UNCHANGED <<opts, img_wh, inBBs, inGts, charBBs, chars, skip_mask, rng,
                   shufLog, noiseLog, preBBs, loop_i, batch, onehot, encErr,
                   balancedVars>>

\* lines 110-122 and 244-251: rescale (SynthCharDataset), encode, return
GetItemReturn ==
    /\ pc = "closed"
    /\ batch' = IF opts.variant = "synth" THEN Rescaled(batch) ELSE batch
    /\ onehot' = string_to_onehot(chars, <<ALPHABET>>, TRUE, FALSE).data
    /\ encErr' = string_to_onehot(chars, <<ALPHABET>>, TRUE, FALSE).raised
    /\ pc' = IF encErr' THEN "raised" ELSE "done"
    /\ UNCHANGED <<opts, img_wh, inBBs, inGts, charBBs, chars, skip_mask, rng,
                   shufLog, noiseLog, preBBs, imageOpen, loop_i, balancedVars>>

Next ==
    \/ GetItemOpen
    \/ GetItemAugment
    \/ GetItemPlain
    \/ GetItemCrop
    \/ GetItemCropRaises
    \/ GetItemClose
    \/ GetItemReturn

Spec == Init /\ [][Next]_vars

\* C3: the image handle opened for the record is closed on every exit
\* path of __getitem__, also when a crop or resize raises partway.
C3_ImageClosedOnExit ==
    pc \in {"done", "raised"} => ~imageOpen

\* number of boxes that passed the filter
Survivors == Cardinality({i \in 1..Len(skip_mask) : skip_mask[i]})

\* C7: with K boxes surviving the filter and batch limit L, the call
\* returns N = K when L is None or L <= 0 and N = min(K, L) otherwise, the
\* batch and the labels both of leading dimension N, with augmentation
\* enabled and disabled.
C7_BatchLimit ==
    pc = "done" =>
        /\ Len(batch) = Len(onehot)
        /\ Len(batch) =
              IF opts.batch_size_limit = NoLimit THEN Survivors
              ELSE IF opts.batch_size_limit[1] <= 0 THEN Survivors
              ELSE Min(Survivors, opts.batch_size_limit[1])

\* C11: for both variants every value of the returned batch lies in
\* [-1, 1], a source pixel p of [0, 255] being returned as 2 * p / 255 - 1
\* (0 as -1, 255 as 1).
C11_BatchWithinUnitRange ==
    pc = "done" =>
        \A i \in 1..Len(batch) :
            /\ -One <= batch[i] /\ batch[i] <= One
            /\ batch[i] * PixelMax = (2 * opts.pixel - PixelMax) * One

-----------------------------------------------------------------------------
(* SpecEncode: calls of string_to_onehot on lists of labels.               *)

\* longest label list of more than one label
MaxLabels == 2

NonStrLabels == {None, <<"int", "0">>, <<"int", "7">>, <<"float", "nan">>}

\* one-character strs: every letter, a digit, a sign, a blank
CharLabels ==
    {Str(UpperCase[i]) : i \in 1..26} \cup {Str(LowerCase[i]) : i \in 1..26}
    \cup {Str("7"), Str("?"), Str(" ")}

\* strs that are no single character
LongLabels ==
    {StrOf(<<>>), StrOf(<<"A", "a">>), StrOf(<<"a", "A">>), StrOf(<<"c", "d">>),
     StrOf(<<"7", "7">>)}

LabelPool == CharLabels \cup LongLabels \cup NonStrLabels

ShortLabelPool == {Str("A"), Str("c"), Str("q"), Str("7"), None, StrOf(<<"A", "a">>)}

LabelLists ==
    {<<l>> : l \in LabelPool}
    \cup UNION { [1..k -> ShortLabelPool] : k \in 0..MaxLabels }

\* the alphabet: none passed, the list of the call sites, a short str
EncodeOpts ==
    [alphabetArg : {<<>>, <<ALPHABET>>, <<StrOf(<<"A", "c", "Q">>)>>},
     include_nonchar : BOOLEAN,
     to_onehot : BOOLEAN]

InitEncode ==
    /\ pc = "call"
    /\ opts \in EncodeOpts
    /\ img_wh = <<0, 0>>
    /\ inBBs = <<>> /\ charBBs = <<>> /\ chars = <<>>
    /\ inGts \in LabelLists
    /\ onehot = <<>> /\ encErr = FALSE
    /\ IdleFilter /\ IdleRandom /\ IdleImage /\ IdleBalanced

EncodeCall ==
    /\ pc = "call"
    /\ onehot' = string_to_onehot(inGts, opts.alphabetArg,
                                  opts.include_nonchar, opts.to_onehot).data
    /\ encErr' = string_to_onehot(inGts, opts.alphabetArg,
                                  opts.include_nonchar, opts.to_onehot).raised
    /\ pc' = IF encErr' THEN "raised" ELSE "returned"
    /\ UNCHANGED <<opts, img_wh, inBBs, inGts, charBBs, chars, skip_mask, rng,
                   shufLog, noiseLog, preBBs, imageOpen, loop_i, batch,
                   balancedVars>>

NextEncode == EncodeCall

SpecEncode == InitEncode /\ [][NextEncode]_vars

\* the characters of the alphabet of the call, in order
AlphabetChars ==
    IF opts.alphabetArg = <<>> THEN AlphabetString
    ELSE IF opts.alphabetArg[1][1] = "str" THEN opts.alphabetArg[1][2]
    ELSE AlphabetString

\* position (0-based) of character c in the alphabet; -1 when absent
AlphabetIndex(c) ==
    IF \E p \in 1..Len(AlphabetChars) : AlphabetChars[p] = c
    THEN (CHOOSE p \in 1..Len(AlphabetChars) : AlphabetChars[p] = c) - 1
    ELSE -1

SentinelIndex == Len(AlphabetChars)

\* the index the claim gives label l
ExpectedIndex(l) ==
    IF ~IsStr(l) THEN SentinelIndex
    ELSE IF Len(l[2]) # 1 THEN SentinelIndex
    ELSE IF AlphabetIndex(l[2][1]) >= 0 THEN AlphabetIndex(l[2][1])
    ELSE IF AlphabetIndex(SwapChar(l[2][1])) >= 0
         THEN AlphabetIndex(SwapChar(l[2][1]))
    ELSE SentinelIndex

\* the index a returned entry stands for: itself, or the column of its 1
DecodedIndex(e) ==
    IF opts.to_onehot
    THEN (CHOOSE c \in 1..Len(e) : e[c] = 1) - 1
    ELSE e

\* C9: with the sentinel in the mapping, encoding never fails, and every
\* label maps to exactly one index: a character of the alphabet to its own
\* position (decoding gives it back), a character absent from the alphabet
\* whose case-swapped form is present to that form's position, anything
\* else (a non-string, a str that is no single character, a character
\* absent in either case) to the sentinel index.
C9_EncodeIndex ==
    opts.include_nonchar =>
       /\ pc # "raised"
       /\ pc = "returned" =>
             /\ Len(onehot) = Len(inGts)
             /\ \A i \in 1..Len(inGts) :
                   /\ opts.to_onehot =>
                         /\ Len(onehot[i]) = SentinelIndex + 1
                         /\ Cardinality({c \in 1..Len(onehot[i]) :
                                            onehot[i][c] # 0}) = 1
                   /\ DecodedIndex(onehot[i]) = ExpectedIndex(inGts[i])

\* the same, for labels that are single characters or no strs
C9_SingleCharacters ==
    (opts.include_nonchar
       /\ \A i \in 1..Len(inGts) : IsStr(inGts[i]) => Len(inGts[i][2]) = 1) =>
       /\ pc # "raised"
       /\ pc = "returned" =>
             /\ Len(onehot) = Len(inGts)
             /\ \A i \in 1..Len(inGts) :
                   DecodedIndex(onehot[i]) = ExpectedIndex(inGts[i])

-----------------------------------------------------------------------------
(* SpecBalanced: one run of genBalancedCharDataset.                        *)

\* the images of a corpus, the characters of an image, the target count
MaxImages == 2
MaxTxt == 2
MaxNmax == 2

Classes == {"A", "b"}
TxtChars == {"A", "b", "?"}

\* an image of the corpus: its transcription and whether its file exists
ImagePool ==
    [txt : UNION { [1..k -> TxtChars] : k \in 1..MaxTxt }, exists : BOOLEAN]

Corpora == UNION { [1..n -> ImagePool] : n \in 1..MaxImages }

\* the output path of character k of image i: char_dir/char/char_i_k.png
char_path(corpus, i, k) == <<corpus[i].txt[k], i, k>>

\* random.sample(range(N), N): any order of the images
Orders(n) ==
    {o \in [1..n -> 1..n] : \A i, j \in 1..n : i # j => o[i] # o[j]}

InitBalanced ==
    /\ pc = "loop"
    /\ \E corpus \in Corpora, nmax \in 1..MaxNmax, skip \in BOOLEAN :
          /\ opts = [N_max |-> nmax, skip_existing |-> skip, corpus |-> corpus]
          /\ todo \in Orders(Len(corpus))
          /\ files \in {{}, {char_path(corpus, 1, 1)},
                        {char_path(corpus, 1, 1),
                         char_path(corpus, Len(corpus), 1)}}
    /\ distribution = [c \in Classes |-> 0]
    /\ cur = 0 /\ kpos = 0
    /\ written = {}
    /\ img_wh = <<0, 0>>
    /\ inBBs = <<>> /\ inGts = <<>> /\ charBBs = <<>> /\ chars = <<>>
    /\ IdleFilter /\ IdleRandom /\ IdleImage /\ IdleEncode

pipelineVars == <<opts, img_wh, inBBs, inGts, charBBs, chars, skip_mask, rng,
                  shufLog, noiseLog, preBBs, imageOpen, loop_i, batch, onehot,
                  encErr>>

MinCount == MinOf({distribution[c] : c \in Classes})

CurChar == opts.corpus[cur].txt[kpos]

\* lines 449-451: every class is full: break
BalancedBreak ==
    /\ pc = "loop" /\ cur = 0 /\ todo # <<>>
    /\ MinCount >= opts.N_max
    /\ pc' = "done"
    /\ UNCHANGED <<distribution, todo, cur, kpos, files, written, pipelineVars>>

\* lines 449-456: visit the next image of the random order
BalancedNextImage ==
    /\ pc = "loop" /\ cur = 0 /\ todo # <<>>
    /\ MinCount < opts.N_max
    /\ cur' = Head(todo)
    /\ todo' = Tail(todo)
    /\ kpos' = 1
    /\ UNCHANGED <<pc, distribution, files, written, pipelineVars>>

\* lines 460-470: continue: the character is no class, its class is full,
\* or its output file exists and skip_existing is on
BalancedSkipChar ==
    /\ pc = "loop" /\ cur # 0 /\ kpos <= Len(opts.corpus[cur].txt)
    /\ \/ CurChar \notin Classes
       \/ (CurChar \in Classes /\ distribution[CurChar] >= opts.N_max)
       \/ (opts.skip_existing /\ char_path(opts.corpus, cur, kpos) \in files)
    /\ kpos' = kpos + 1
    /\ UNCHANGED <<pc, distribution, todo, cur, files, written, pipelineVars>>

\* the character is one the loop body goes on to write
Writes ==
    /\ pc = "loop" /\ cur # 0 /\ kpos <= Len(opts.corpus[cur].txt)
    /\ CurChar \in Classes
    /\ distribution[CurChar] < opts.N_max
    /\ ~(opts.skip_existing /\ char_path(opts.corpus, cur, kpos) \in files)

\* lines 473-478: crop, write the file, count it
BalancedWrite ==
    /\ Writes
    /\ opts.corpus[cur].exists
    /\ files' = files \cup {char_path(opts.corpus, cur, kpos)}
    /\ written' = written \cup {char_path(opts.corpus, cur, kpos)}
    /\ distribution' = [distribution EXCEPT ![CurChar] = @ + 1]
    /\ kpos' = kpos + 1
    /\ UNCHANGED <<pc, todo, cur, pipelineVars>>

\* lines 475-476 and 489-491: the image file does not exist:
\* getCroppedImage prints the warning and returns None, and
\* cv2.imwrite(char_path, None) raises; nothing catches it
BalancedWriteMissing ==
    /\ Writes
    /\ ~opts.corpus[cur].exists
    /\ pc' = "raised"
    /\ UNCHANGED <<distribution, todo, cur, kpos, files, written, pipelineVars>>

\* the inner loop is over: back to the for over the images
BalancedEndImage ==
    /\ pc = "loop" /\ cur # 0 /\ kpos > Len(opts.corpus[cur].txt)
    /\ cur' = 0
    /\ UNCHANGED <<pc, distribution, todo, kpos, files, written, pipelineVars>>

\* line 480: the corpus is exhausted: print(distribution)
BalancedExhausted ==
    /\ pc = "loop" /\ cur = 0 /\ todo = <<>>
    /\ pc' = "done"
    /\ UNCHANGED <<distribution, todo, cur, kpos, files, written, pipelineVars>>

NextBalanced ==
    \/ BalancedBreak
    \/ BalancedNextImage
    \/ BalancedSkipChar
    \/ BalancedWrite
    \/ BalancedWriteMissing
    \/ BalancedEndImage
    \/ BalancedExhausted

SpecBalanced == InitBalanced /\ [][NextBalanced]_vars

\* occurrences of class c in the corpus
Occurrences(c) ==
    Cardinality({<<i, k>> \in (1..Len(opts.corpus)) \X (1..MaxTxt) :
                    k <= Len(opts.corpus[i].txt) /\ opts.corpus[i].txt[k] = c})

\* C4: when the corpus holds at least N_max occurrences of every tracked
\* class, the run ends with every class at exactly N_max, whatever the
\* order of the images and whatever output files exist beforehand.
C4_EveryClassReachesNmax ==
    (pc = "done" /\ \A c \in Classes : Occurrences(c) >= opts.N_max) =>
        \A c \in Classes : distribution[c] = opts.N_max

\* C5: a record whose image file does not exist is skipped with a warning
\* and no fatal error: the run goes on, no file is written for it and its
\* class is not counted.
C5_MissingImageSkipped ==
    /\ pc # "raised"
    /\ \A c \in Classes :
          distribution[c] = Cardinality({p \in written : p[1] = c})

=============================================================================
